---- MODULE Spec2Model ----
(***************************************************************************)
(* Session store (WebRTCService) and signaling relay (SocketHandler) of    *)
(* the WhatsApp/HubSpot calling backend.                                   *)
(*                                                                         *)
(* The process is single threaded: a handler runs without interruption     *)
(* until it awaits a cache (Redis) call.  All cache calls go through one   *)
(* client connection, so the cache applies the commands in the order they  *)
(* are issued and answers them in that order.  A command therefore takes   *)
(* effect on `cache` in the step that issues it, and the suspended         *)
(* handlers resume in issue order (`queue`).                               *)
(***************************************************************************)
EXTENDS Integers, Sequences, FiniteSets, TLC

\* ---------------------------------------------------------------- bounds
MaxSessions == 1
MaxParticipants == 2
MaxInFlight == 2
\* number of client events (socket events and REST requests) in a run
MaxEvents == 8
\* the same, in a run of the session handlers alone (SpecSession)
MaxSessionEvents == 7
\* the same, in a run with the REST join route (SpecRest)
MaxRestEvents == 5
\* client events and sweep calls handled by a run with the expiry sweep
MaxSweepEvents == 5
\* client events handled by a run that starts from an established session
MaxFifoEvents == 3
\* client events handled by a run that starts with a user's second channel
MaxRejoinEvents == 3
\* client events handled by a run with payload-less events (SpecErrors)
MaxErrorEvents == 5
\* AuthProvider calls that wait for the server at one time
MaxBrowserCalls == 2
\* requests made through apiClient in a run
MaxRequests == 2
\* times one request is sent before the run stops sending it
MaxSends == 3
\* client events and deleteSession calls handled by a run of SpecDelete
MaxDeleteEvents == 5
\* longest participants list given to createConferenceCall
MaxLegs == 3
\* number of cache calls that fail in a run
MaxCacheFailures == 1

\* number of real-time channels that connect in a run
MaxSockets == 2
MaxWebhookEvents == 4

\* socket.io gives every connection a fresh socket.id
SocketOrder == <<"c1", "c2", "c3", "c4">>
Sockets == {SocketOrder[i] : i \in 1..MaxSockets}
Users == {"u1", "u2"}

\* session ids issued by createSession (uuidv4), in order of creation
SessionIds == 1..MaxSessions
\* the sessionId field of an event that carries none: no session id
NoId == MaxSessions + 1

\* the absent session (undefined / null)
NoSession == [status |-> "none", participants |-> <<>>]
NoUser == "nouser"
NoToken == "notoken"
BadToken == "badtoken"
\* a valid token is modelled by the userId that it decodes to
Tokens == Users \cup {NoToken, BadToken}

RelayKinds == {"webrtc:offer", "webrtc:answer", "webrtc:ice-candidate"}

VARIABLES
  activeSessions,   \* WebRTCService.activeSessions: id -> session | NoSession
  mapKeys,          \* insertion order of the keys of activeSessions
  cache,            \* Redis: id -> serialized session | NoSession
  issued,           \* ids already returned by uuidv4()
  connected,        \* sockets whose transport is open
  closed,           \* sockets that have disconnected
  socketUserId,     \* socket.userId
  connectedClients, \* SocketHandler.connectedClients: socket -> userId | NoUser
  rooms,            \* socket.io rooms session:<id> -> set of sockets
  queue,            \* handlers suspended at a cache call, in issue order
  ev,               \* the event handled by the last step
  out,              \* the emissions of the last step
  ret,              \* the result of the service call completed by the last step
  failures,         \* number of cache calls that have failed so far
  events,           \* number of client events the run may still handle
  ended,            \* history: sessions whose last participant a leaveSession has removed
  authed,           \* history: sockets that have got auth:success
  joined,           \* history: sessions each socket got session:joined for and has not left
  old,              \* ids of the sessions whose createdAt is more than one hour ago
  micro,            \* relay handlers suspended at await webrtcService.create..., in order
  inbox,            \* history: the forwarded messages each socket has received, in order
  sent,             \* history: number of negotiation messages accepted so far
  conference,       \* TwilioService: state of client.conferences.create of the call in progress
  participants,     \* the participants argument of the createConferenceCall in progress
  participantPromises, \* state of each addToConference promise, by position
  conferenceSid,    \* conference.sid, as issued by the gateway for the call in progress
  requests,         \* requests sent to the Twilio client by the call in progress
  outcome,          \* what createConferenceCall returned or threw
  callStatus,       \* the gateway's status of the call of each leg, by position
  updates,          \* legs whose endCall waits for the gateway's answer
  endOutcome,       \* what the last endCall returned or threw
  twiml,            \* the last two generateConferenceTwiML calls: arguments and returned markup
  browser,          \* AuthProvider: localStorage auth_token, token, user, the API client's header
  calls,            \* AuthProvider calls that wait for the server, in the order they started
  http              \* apiClient: the requests made through it, in the order they were made

store == <<activeSessions, mapKeys, cache>>

\* null of JavaScript
Null == "null"
\* useState(null), useState(localStorage.getItem('auth_token')) with an empty
\* localStorage, and no Authorization header; last is the call that changed the state last
Mounted == [stored |-> Null, token |-> Null, user |-> Null, header |-> Null,
            last |-> [op |-> "none", ok |-> TRUE, user |-> Null]]

\* the state of TwilioService.createConferenceCall
twilio == <<conference, conferenceSid, participants, participantPromises, requests, outcome,
            callStatus, updates, endOutcome>>

\* the browser side: AuthProvider and authService
frontend == <<browser, calls, http>>

\* the relay handlers between their two steps, and what they have delivered
fifo == <<micro, inbox, sent>>

\* the state of the socket handler and of WebRTCService
relay == <<activeSessions, mapKeys, cache, issued, connected, closed, socketUserId,
           connectedClients, rooms, queue, ev, out, ret, failures, events, ended, authed,
           joined, old, micro, inbox, sent>>

vars == <<activeSessions, mapKeys, cache, issued, connected, closed, socketUserId,
          connectedClients, rooms, queue, ev, out, ret, failures, events, ended, authed, joined,
          old, micro, inbox, sent, conference, conferenceSid, participants, participantPromises, requests, outcome,
          callStatus, updates, endOutcome, twiml, browser, calls, http>>

\* ---------------------------------------------------------------- helpers
RECURSIVE FilterOut(_, _)
\* participants.filter(p => p.userId !== userId)
FilterOut(ps, u) ==
  IF ps = <<>> THEN <<>>
  ELSE IF Head(ps).userId = u THEN FilterOut(Tail(ps), u)
       ELSE <<Head(ps)>> \o FilterOut(Tail(ps), u)

RECURSIVE RemoveKey(_, _)
RemoveKey(ks, s) ==
  IF ks = <<>> THEN <<>>
  ELSE IF Head(ks) = s THEN RemoveKey(Tail(ks), s)
       ELSE <<Head(ks)>> \o RemoveKey(Tail(ks), s)

\* Map.set keeps the position of an existing key and appends a new one
SetKey(ks, s) == IF \E i \in 1..Len(ks) : ks[i] = s THEN ks ELSE Append(ks, s)

\* the payload has no error property
NoError == "none"
\* the event came without a payload
Undefined == "undefined"

\* the error field is the payload's error property ("none" when it has none)
Emit(name, c, s, to) == [ev |-> name, from |-> c, uid |-> socketUserId[c], sid |-> s, to |-> to,
                         error |-> NoError]
\* socket.emit: a reply to the socket itself (dropped when it is closed)
Reply(name, c, s) == Emit(name, c, s, {c} \cap connected)
\* socket.to(room).emit: every socket in the room except the sender
ToRoom(name, c, s) == Emit(name, c, s, rooms[s] \ {c})

\* what a handler catches: error.message of the exception
TypeError == "Cannot destructure property of undefined"
SessionNotFound == "Session not found"
CacheError == "The client is closed"
JwtError == "jwt malformed"
Causes == {TypeError, SessionNotFound, CacheError, JwtError}

\* variant: the handler sends error.message of what it caught
ErrorBody_Leak(site, cause) == cause

\* the string literal of the emitting statement: { error: '...' }
ErrorBody(site, cause) ==
  CASE site = "authenticate:!token" -> "No token provided"
    [] site = "authenticate:!decoded" -> "Invalid token"
    [] site = "authenticate" -> "Authentication failed"
    [] site = "!socket.userId" -> "Not authenticated"
    [] site = "webrtc:offer" -> "Failed to send offer"
    [] site = "webrtc:answer" -> "Failed to send answer"
    [] site = "webrtc:ice-candidate" -> "Failed to send ICE candidate"
    [] site = "session:join" -> "Failed to join session"
    [] site = "call:accept-inbound" -> "Failed to accept call"

\* socket.emit(name, { error: ... }) of the given statement
Fail(name, c, s, site, cause) == [Reply(name, c, s) EXCEPT !.error = ErrorBody(site, cause)]

\* a client event: counted against the length of the run
ClientEvent == events > 0 /\ events' = events - 1

\* the outcome of one cache call: it succeeds, or it fails
CacheCall(ok) ==
  /\ ~ok => failures < MaxCacheFailures
  /\ failures' = IF ok THEN failures ELSE failures + 1

NoEv == [kind |-> "init", c |-> "none", s |-> NoId, tok |-> NoToken]
NoRet == [op |-> "none"]
\* no conference.sid has been issued
NoSid == "none"
\* no endCall has settled
NoEnd == [kind |-> "none", leg |-> 0, reply |-> "none"]
\* createConferenceCall has not settled
NoOutcome == [kind |-> "none"]

\* a handler holds a reference to a session object.  "live" is the object
\* that is in activeSessions now; once the object is removed from the map or
\* replaced there, the reference is the object as it was left.
LiveObj == [status |-> "live", participants |-> <<>>]

Detach(q, s, content) ==
  [i \in DOMAIN q |->
     IF q[i].s = s /\ q[i].obj = LiveObj THEN [q[i] EXCEPT !.obj = content] ELSE q[i]]

Deref(t) == IF t.obj = LiveObj THEN activeSessions[t.s] ELSE t.obj

\* the state after construction: no session, no connection, no handler running
Constructed ==
  /\ activeSessions = [s \in SessionIds |-> NoSession]
  /\ mapKeys = <<>>
  /\ cache = [s \in SessionIds |-> NoSession]
  /\ issued = {}
  /\ connected = {}
  /\ closed = {}
  /\ socketUserId = [c \in Sockets |-> NoUser]
  /\ connectedClients = [c \in Sockets |-> NoUser]
  /\ rooms = [s \in SessionIds |-> {}]
  /\ queue = <<>>
  /\ ev = NoEv
  /\ out = {}
  /\ ret = NoRet
  /\ failures = 0
  /\ ended = {}
  /\ authed = {}
  /\ joined = [c \in Sockets |-> {}]
  /\ old = {}
  /\ micro = <<>>
  /\ inbox = [c \in Sockets |-> <<>>]
  /\ sent = 0
  /\ conference = "none"
  /\ conferenceSid = NoSid
  /\ participants = <<>>
  /\ participantPromises = <<>>
  /\ requests = <<>>
  /\ outcome = NoOutcome
  /\ callStatus = <<>>
  /\ updates = {}
  /\ endOutcome = NoEnd
  /\ twiml = <<>>
  /\ browser = Mounted
  /\ calls = <<>>
  /\ http = <<>>

Init == Constructed /\ events = MaxEvents

InitSession == Constructed /\ events = MaxSessionEvents

InitRest == Constructed /\ events = MaxRestEvents

InitSweep == Constructed /\ events = MaxSweepEvents

InitDelete == Constructed /\ events = MaxDeleteEvents

InitErrors == Constructed /\ events = MaxErrorEvents

InitWebhooks == Constructed /\ events = MaxWebhookEvents

\* A session with two participants on two channels, as it is after connection,
\* authenticate (u1 on c1, u2 on c2), createSession and two session:join, all
\* cache calls having succeeded.
Established ==
  LET session == [status |-> "active",
                  participants |-> <<[userId |-> "u1", socketId |-> "c1"],
                                     [userId |-> "u2", socketId |-> "c2"]>>]
      bound == [c \in Sockets |-> IF c = "c1" THEN "u1" ELSE IF c = "c2" THEN "u2" ELSE NoUser]
  IN /\ activeSessions = [s \in SessionIds |-> IF s = 1 THEN session ELSE NoSession]
     /\ mapKeys = <<1>>
     /\ cache = [s \in SessionIds |-> IF s = 1 THEN session ELSE NoSession]
     /\ issued = {1}
     /\ connected = {"c1", "c2"}
     /\ closed = {}
     /\ socketUserId = bound
     /\ connectedClients = bound
     /\ rooms = [s \in SessionIds |-> IF s = 1 THEN {"c1", "c2"} ELSE {}]
     /\ queue = <<>>
     /\ failures = 0
     /\ ended = {}
     /\ authed = {"c1", "c2"}
     /\ joined = [c \in Sockets |-> IF c \in {"c1", "c2"} THEN {1} ELSE {}]

InitFifo ==
  /\ Established
  /\ ev = NoEv
  /\ out = {}
  /\ ret = NoRet
  /\ old = {}
  /\ micro = <<>>
  /\ inbox = [c \in Sockets |-> <<>>]
  /\ sent = 0
  /\ conference = "none"
  /\ conferenceSid = NoSid
  /\ participants = <<>>
  /\ participantPromises = <<>>
  /\ requests = <<>>
  /\ outcome = NoOutcome
  /\ callStatus = <<>>
  /\ updates = {}
  /\ endOutcome = NoEnd
  /\ twiml = <<>>
  /\ browser = Mounted
  /\ calls = <<>>
  /\ http = <<>>
  /\ events = MaxFifoEvents

\* A session that user u1 has joined on channel c1, while the same user is
\* authenticated on a second channel c2 that has not joined: the state after
\* two connections, two authenticate with u1's token, createSession and the
\* session:join of c1, all cache calls having succeeded.
SecondChannel ==
  LET session == [status |-> "active",
                  participants |-> <<[userId |-> "u1", socketId |-> "c1"]>>]
      bound == [c \in Sockets |-> IF c \in {"c1", "c2"} THEN "u1" ELSE NoUser]
  IN /\ activeSessions = [s \in SessionIds |-> IF s = 1 THEN session ELSE NoSession]
     /\ mapKeys = <<1>>
     /\ cache = [s \in SessionIds |-> IF s = 1 THEN session ELSE NoSession]
     /\ issued = {1}
     /\ connected = {"c1", "c2"}
     /\ closed = {}
     /\ socketUserId = bound
     /\ connectedClients = bound
     /\ rooms = [s \in SessionIds |-> IF s = 1 THEN {"c1"} ELSE {}]
     /\ queue = <<>>
     /\ failures = 0
     /\ ended = {}
     /\ authed = {"c1", "c2"}
     /\ joined = [c \in Sockets |-> IF c = "c1" THEN {1} ELSE {}]

InitRejoin ==
  /\ SecondChannel
  /\ ev = NoEv
  /\ out = {}
  /\ ret = NoRet
  /\ old = {}
  /\ micro = <<>>
  /\ inbox = [c \in Sockets |-> <<>>]
  /\ sent = 0
  /\ conference = "none"
  /\ conferenceSid = NoSid
  /\ participants = <<>>
  /\ participantPromises = <<>>
  /\ requests = <<>>
  /\ outcome = NoOutcome
  /\ callStatus = <<>>
  /\ updates = {}
  /\ endOutcome = NoEnd
  /\ twiml = <<>>
  /\ browser = Mounted
  /\ calls = <<>>
  /\ http = <<>>
  /\ events = MaxRejoinEvents

\* no client event of the socket handler is handled in a run of SpecConference
InitConference == Constructed /\ events = 0

\* ---------------------------------------------------------------- connection
NextSocket == SocketOrder[Cardinality(connected \cup closed) + 1]

\* io.on('connection') -> handleConnection(socket, io): registers the handlers
Connect ==
  /\ connected \cup closed # Sockets
  /\ ClientEvent
  /\ connected' = connected \cup {NextSocket}
  /\ ev' = [kind |-> "connection", c |-> NextSocket, s |-> NoId, tok |-> NoToken]
  /\ out' = {}
  /\ ret' = NoRet
  /\ UNCHANGED <<failures, ended, activeSessions, mapKeys, cache, issued, authed, closed, socketUserId,
                 connectedClients, rooms, queue, joined, old, fifo, twilio, twiml, frontend>>

\* ---------------------------------------------------------------- authenticate
\* hubspotService.verifyJWT: the decoded payload, or null
verifyJWT(tok) == IF tok \in Users THEN tok ELSE NoUser

Authenticate(c, tok) ==
  /\ c \in connected
  /\ ClientEvent
  /\ ev' = [kind |-> "authenticate", c |-> c, s |-> NoId, tok |-> tok]
  /\ ret' = NoRet
  /\ IF tok = NoToken \/ verifyJWT(tok) = NoUser
     THEN /\ out' = {IF tok = NoToken THEN Fail("auth:error", c, NoId, "authenticate:!token", NoError)
                     ELSE Fail("auth:error", c, NoId, "authenticate:!decoded", JwtError)}
          /\ UNCHANGED <<socketUserId, connectedClients, authed>>
     ELSE /\ socketUserId' = [socketUserId EXCEPT ![c] = verifyJWT(tok)]
          /\ connectedClients' = [connectedClients EXCEPT ![c] = verifyJWT(tok)]
          /\ out' = {[Reply("auth:success", c, NoId) EXCEPT !.uid = verifyJWT(tok)]}
          /\ authed' = authed \cup {c}
  /\ UNCHANGED <<failures, ended, activeSessions, mapKeys, cache, issued, connected, closed, rooms, queue, joined, old, fifo, twilio, twiml, frontend>>

\* ---------------------------------------------------------------- cache calls
\* storeSession: redis.setEx(key, 3600, JSON.stringify(session)); throws when the call fails
storeSession(s, session, ok) == IF ok THEN [cache EXCEPT ![s] = session] ELSE cache

\* getSession: redis.get(key) parsed, null when absent or when the call fails
getSession(s, ok) == IF ok THEN cache[s] ELSE NoSession

\* deleteSession: redis.del(key); a failure is logged and swallowed
deleteSession(c0, s, ok) == IF ok THEN [c0 EXCEPT ![s] = NoSession] ELSE c0

\* ---------------------------------------------------------------- tasks
Task(op, pc, c, u, s, ok) ==
  [op |-> op, pc |-> pc, c |-> c, u |-> u, s |-> s, ok |-> ok,
   obj |-> LiveObj, res |-> NoSession, todo |-> <<>>,
   solo |-> (\A i \in DOMAIN queue : queue[i].s # s), before |-> <<>>,
   expired |-> {}, failed |-> 0]

CanSuspend == Len(queue) < MaxInFlight

KnownIds == issued

\* ---------------------------------------------------------------- createSession
NextId == CHOOSE s \in SessionIds \ issued : \A r \in SessionIds \ issued : s <= r

NewSession == [status |-> "created", participants |-> <<>>]

\* POST /webrtc/session -> webrtcService.createSession(userId, type)
CreateSession(u) ==
  /\ issued # SessionIds
  /\ ClientEvent
  /\ CanSuspend
  /\ \E ok \in BOOLEAN :
       /\ CacheCall(ok)
       /\ activeSessions' = [activeSessions EXCEPT ![NextId] = NewSession]
       /\ mapKeys' = SetKey(mapKeys, NextId)
       /\ cache' = storeSession(NextId, NewSession, ok)
       /\ queue' = Append(queue, Task("create", "store", "none", u, NextId, ok))
  /\ issued' = issued \cup {NextId}
  /\ UNCHANGED <<authed, ended>>
  /\ ev' = [kind |-> "create", c |-> "none", s |-> NextId, tok |-> u]
  /\ out' = {}
  /\ ret' = NoRet
  /\ UNCHANGED <<connected, closed, socketUserId, connectedClients, rooms, joined, old, fifo, twilio, twiml, frontend>>

\* variant: the handlers do not look at socket.userId
NotAuthenticated_Never(c) == FALSE

\* if (!socket.userId): the guard at the head of every session and signaling handler
NotAuthenticated(c) == socketUserId[c] = NoUser

\* ---------------------------------------------------------------- signaling
\* createOffer / createAnswer / handleIceCandidate: each only looks the
\* session up in activeSessions and throws 'Session not found' on a miss
createOffer(s) == activeSessions[s] # NoSession
createAnswer(s) == activeSessions[s] # NoSession
handleIceCandidate(s) == activeSessions[s] # NoSession

ServiceAccepts(kind, s) ==
  CASE kind = "webrtc:offer" -> createOffer(s)
    [] kind = "webrtc:answer" -> createAnswer(s)
    [] kind = "webrtc:ice-candidate" -> handleIceCandidate(s)

\* socket.on('webrtc:offer' | 'webrtc:answer' | 'webrtc:ice-candidate')
Signal(c, s, kind) ==
  /\ c \in connected
  /\ ClientEvent
  /\ s \in KnownIds
  /\ ev' = [kind |-> kind, c |-> c, s |-> s, tok |-> NoToken]
  /\ ret' = NoRet
  /\ out' = IF NotAuthenticated(c) THEN {Fail("error", c, s, "!socket.userId", NoError)}
            ELSE IF ~ServiceAccepts(kind, s) THEN {Fail("webrtc:error", c, s, kind, SessionNotFound)}
            ELSE {ToRoom(kind, c, s)}
  /\ UNCHANGED <<failures, ended, activeSessions, mapKeys, cache, issued, authed, connected, closed, socketUserId,
                 connectedClients, rooms, queue, joined, old, fifo, twilio, twiml, frontend>>

\* the client-supplied identity fields a negotiation message may carry
ClaimedIds == Users \cup {NoUser}

\* variant: the fields of the client's object are copied into the forwarded one
Forward_Spread(kind, s, u, claimed) ==
  [kind |-> kind, s |-> s, uid |-> IF claimed = NoUser THEN u ELSE claimed]

\* createOffer / createAnswer / handleIceCandidate: the object that is forwarded
\* gets sessionId, the userId argument, the type and the sdp or candidate fields
Forward(kind, s, u, claimed) == [kind |-> kind, s |-> s, uid |-> u]

\* socket.on('webrtc:offer' | 'webrtc:answer' | 'webrtc:ice-candidate') up to
\* await webrtcService.createOffer(...): the call itself runs to its end, the
\* handler goes on in a microtask
SignalStart(c, s, kind, claimed) ==
  /\ c \in connected
  /\ ClientEvent
  /\ s \in KnownIds
  /\ ev' = [kind |-> kind, c |-> c, s |-> s, tok |-> claimed]
  /\ ret' = NoRet
  /\ IF NotAuthenticated(c)
     THEN /\ out' = {Fail("error", c, s, "!socket.userId", NoError)}
          /\ UNCHANGED <<micro, sent>>
     ELSE /\ out' = {}
          /\ sent' = sent + 1
          /\ micro' = Append(micro, [c |-> c, n |-> sent + 1, ok |-> ServiceAccepts(kind, s),
                                     data |-> Forward(kind, s, socketUserId[c], claimed),
                                     bound |-> socketUserId[c]])
  /\ UNCHANGED <<failures, ended, activeSessions, mapKeys, cache, issued, authed, connected, closed,
                 socketUserId, connectedClients, rooms, queue, joined, old, inbox, twilio, twiml, frontend>>

\* variant: the continuation queued last runs first
Runnable_Last(q) == Len(q)

\* the microtask queue runs the continuations in the order they were queued
Runnable(q) == 1

\* the rest of a relay handler: socket.to(room).emit(kind, data), or the
\* catch block
SignalEmit ==
  /\ micro # <<>>
  /\ LET k == Runnable(micro)
         m == micro[k]
         to == rooms[m.data.s] \ {m.c}
     IN /\ micro' = [i \in 1..(Len(micro) - 1) |-> IF i < k THEN micro[i] ELSE micro[i + 1]]
        /\ ev' = [kind |-> "emit", c |-> m.c, s |-> m.data.s, tok |-> NoToken]
        /\ out' = IF m.ok
                  THEN {[ev |-> m.data.kind, from |-> m.c, uid |-> m.data.uid, sid |-> m.data.s, to |-> to,
                         error |-> NoError]}
                  ELSE {Fail("webrtc:error", m.c, m.data.s, m.data.kind, SessionNotFound)}
        /\ inbox' = [d \in Sockets |->
                       IF m.ok /\ d \in to
                       THEN Append(inbox[d], [n |-> m.n, from |-> m.c, data |-> m.data,
                                              bound |-> m.bound])
                       ELSE inbox[d]]
  /\ ret' = NoRet
  /\ UNCHANGED <<failures, ended, activeSessions, mapKeys, cache, issued, authed, connected, closed,
                 socketUserId, connectedClients, rooms, queue, joined, old, sent, events, twilio, twiml, frontend>>

\* ---------------------------------------------------------------- handler failures
\* the events whose handlers destructure their payload inside try
Handlers == {"authenticate", "webrtc:offer", "webrtc:answer", "webrtc:ice-candidate",
             "session:join", "session:leave", "call:accept-inbound", "call:quality-report"}

\* the event a handler's catch block emits
ErrorEvent(kind) ==
  CASE kind = "authenticate" -> "auth:error"
    [] kind \in {"webrtc:offer", "webrtc:answer", "webrtc:ice-candidate"} -> "webrtc:error"
    [] kind = "session:join" -> "session:error"
    [] kind = "call:accept-inbound" -> "call:error"

\* an event that comes without a payload: const { ... } = data throws inside
\* try, before any check; session:leave and call:quality-report only log
Malformed(c, kind) ==
  /\ c \in connected
  /\ ClientEvent
  /\ ev' = [kind |-> kind, c |-> c, s |-> NoId, tok |-> Undefined]
  /\ ret' = NoRet
  /\ out' = IF kind \in {"session:leave", "call:quality-report"} THEN {}
            ELSE {Fail(ErrorEvent(kind), c, NoId, kind, TypeError)}
  /\ UNCHANGED <<failures, ended, activeSessions, mapKeys, cache, issued, authed, connected, closed,
                 socketUserId, connectedClients, rooms, queue, joined, old, fifo, twilio, twiml, frontend>>

\* socket.on('call:accept-inbound'): socket.broadcast.emit reaches every other
\* connected socket
CallAcceptInbound(c) ==
  /\ c \in connected
  /\ ClientEvent
  /\ ev' = [kind |-> "call:accept-inbound", c |-> c, s |-> NoId, tok |-> NoToken]
  /\ ret' = NoRet
  /\ out' = IF NotAuthenticated(c) THEN {Fail("error", c, NoId, "!socket.userId", NoError)}
            ELSE {Emit("call:accepted", c, NoId, connected \ {c}), Reply("call:connected", c, NoId)}
  /\ UNCHANGED <<failures, ended, activeSessions, mapKeys, cache, issued, authed, connected, closed,
                 socketUserId, connectedClients, rooms, queue, joined, old, fifo, twilio, twiml, frontend>>

\* ---------------------------------------------------------------- joinSession
\* variant: the status is set, the participant is not pushed
PushParticipant_StatusOnly(session, u, c) == [session EXCEPT !.status = "active"]

\* session.participants.push(participant); session.status = 'active'
PushParticipant(session, u, c) ==
  [status |-> "active",
   participants |-> Append(session.participants, [userId |-> u, socketId |-> c])]

Fits(session) == session = NoSession \/ Len(session.participants) < MaxParticipants

\* webrtcService.joinSession(sessionId, userId, socketId) up to its first
\* await, called by handler op: the session of the map gets the participant
\* and is written to the cache; a session that is not in the map is first
\* read from the cache
joinSession(op, s, u, c) ==
  /\ CanSuspend
  /\ IF activeSessions[s] # NoSession
     THEN /\ Fits(activeSessions[s])
          /\ \E ok \in BOOLEAN :
               /\ CacheCall(ok)
               /\ activeSessions' = [activeSessions EXCEPT ![s] = PushParticipant(@, u, c)]
               /\ cache' = storeSession(s, activeSessions'[s], ok)
               /\ queue' = Append(queue, Task(op, "store", c, u, s, ok))
          /\ UNCHANGED <<mapKeys, ended>>
     ELSE /\ \E ok \in BOOLEAN :
               /\ CacheCall(ok)
               /\ Fits(getSession(s, ok))
               /\ queue' = Append(queue, [Task(op, "get", c, u, s, ok) EXCEPT !.res = getSession(s, ok)])
          /\ UNCHANGED <<store, ended>>

\* variant: the join puts the user's other channels out of the room
JoinRoom_Replace(c, s) ==
  [rooms EXCEPT ![s] = (@ \ {d \in Sockets : socketUserId[d] = socketUserId[c]}) \cup {c}]

\* socket.join(`session:${sessionId}`)
JoinRoom(c, s) == [rooms EXCEPT ![s] = @ \cup {c}]

\* socket.on('session:join'), up to the first await
SessionJoin(c, s) ==
  /\ c \in connected
  /\ ClientEvent
  /\ s \in KnownIds
  /\ ev' = [kind |-> "session:join", c |-> c, s |-> s, tok |-> NoToken]
  /\ ret' = NoRet
  /\ IF NotAuthenticated(c)
     THEN /\ out' = {Fail("error", c, s, "!socket.userId", NoError)}
          /\ UNCHANGED <<failures, ended, activeSessions, mapKeys, cache, rooms, queue>>
     ELSE /\ out' = {}
          /\ rooms' = JoinRoom(c, s)
          /\ joinSession("join", s, socketUserId[c], c)
  /\ UNCHANGED <<issued, authed, connected, closed, socketUserId, connectedClients, joined, old, fifo, twilio, twiml, frontend>>

\* POST /webrtc/session/:sessionId/join, up to the first await: the user is
\* the one of the request's token, the socketId is read from the request body
RestJoin(u, s, c) ==
  /\ ClientEvent
  /\ s \in KnownIds
  /\ ev' = [kind |-> "rest:join", c |-> c, s |-> s, tok |-> u]
  /\ ret' = NoRet
  /\ out' = {}
  /\ joinSession("restjoin", s, u, c)
  /\ UNCHANGED <<issued, authed, connected, closed, socketUserId, connectedClients, rooms, joined, old, fifo, twilio, twiml, frontend>>

\* ---------------------------------------------------------------- leaveSession
EndedSession == [status |-> "ended", participants |-> <<>>]

\* variant: the ended session stays in the map
leaveSession_KeepsEntry(s, u, ok) ==
  LET session == activeSessions[s]
      rest == FilterOut(session.participants, u)
  IN IF Len(rest) = 0
     THEN [map |-> [activeSessions EXCEPT ![s] = EndedSession],
           keys |-> mapKeys,
           cache |-> deleteSession(cache, s, ok),
           pc |-> "del"]
     ELSE [map |-> [activeSessions EXCEPT ![s] = [session EXCEPT !.participants = rest]],
           keys |-> mapKeys,
           cache |-> storeSession(s, [session EXCEPT !.participants = rest], ok),
           pc |-> "store"]

\* variant: the record is written to the cache before the participant is removed
leaveSession_StoresUnfiltered(s, u, ok) ==
  LET session == activeSessions[s]
      rest == FilterOut(session.participants, u)
  IN IF Len(rest) = 0
     THEN [map |-> [activeSessions EXCEPT ![s] = NoSession],
           keys |-> RemoveKey(mapKeys, s),
           cache |-> deleteSession(cache, s, ok),
           pc |-> "del"]
     ELSE [map |-> [activeSessions EXCEPT ![s] = [session EXCEPT !.participants = rest]],
           keys |-> mapKeys,
           cache |-> storeSession(s, session, ok),
           pc |-> "store"]

\* the synchronous part of leaveSession on a session that is in the map:
\* filter the participants; on an empty list end the session, delete it from
\* the map and issue the cache delete, otherwise issue the cache write
leaveSession(s, u, ok) ==
  LET session == activeSessions[s]
      rest == FilterOut(session.participants, u)
  IN IF Len(rest) = 0
     THEN [map |-> [activeSessions EXCEPT ![s] = NoSession],
           keys |-> RemoveKey(mapKeys, s),
           cache |-> deleteSession(cache, s, ok),
           pc |-> "del"]
     ELSE [map |-> [activeSessions EXCEPT ![s] = [session EXCEPT !.participants = rest]],
           keys |-> mapKeys,
           cache |-> storeSession(s, [session EXCEPT !.participants = rest], ok),
           pc |-> "store"]

\* the state change of a leaveSession call made by handler task t
ApplyLeave(t, q, ok) ==
  LET L == leaveSession(t.s, t.u, ok)
      me == [t EXCEPT !.pc = L.pc, !.ok = ok,
                      !.obj = IF L.pc = "del" THEN EndedSession ELSE LiveObj,
                      !.before = activeSessions[t.s].participants]
  IN /\ CacheCall(ok)
     /\ activeSessions' = L.map
     /\ mapKeys' = L.keys
     /\ cache' = L.cache
     /\ queue' = Append(IF L.pc = "del" THEN Detach(q, t.s, EndedSession) ELSE q, me)
     /\ ended' = IF L.pc = "del" /\ activeSessions[t.s].participants # <<>>
                 THEN ended \cup {t.s} ELSE ended

\* socket.on('session:leave'), up to the first await
SessionLeave(c, s) ==
  /\ c \in connected
  /\ ClientEvent
  /\ s \in KnownIds
  /\ ev' = [kind |-> "session:leave", c |-> c, s |-> s, tok |-> NoToken]
  /\ ret' = NoRet
  /\ out' = {}
  /\ IF NotAuthenticated(c)
     THEN UNCHANGED <<failures, ended, activeSessions, mapKeys, cache, rooms, queue, joined>>
     ELSE /\ rooms' = [rooms EXCEPT ![s] = @ \ {c}]
          /\ joined' = [joined EXCEPT ![c] = @ \ {s}]
          /\ IF activeSessions[s] = NoSession
             THEN UNCHANGED <<failures, ended, activeSessions, mapKeys, cache, queue>>
             ELSE /\ CanSuspend
                  /\ \E ok \in BOOLEAN :
                       ApplyLeave(Task("leave", "store", c, socketUserId[c], s, ok), queue, ok)
  /\ UNCHANGED <<issued, authed, connected, closed, socketUserId, connectedClients, old, fifo, twilio, twiml, frontend>>

\* ---------------------------------------------------------------- expiry
\* time passes: every session created so far is now more than one hour old
HourPasses ==
  /\ old # issued
  /\ old' = issued
  /\ ev' = [kind |-> "clock", c |-> "none", s |-> NoId, tok |-> NoToken]
  /\ out' = {}
  /\ ret' = NoRet
  /\ UNCHANGED <<activeSessions, mapKeys, cache, issued, connected, closed, socketUserId,
                 connectedClients, rooms, queue, failures, events, ended, authed, joined, fifo, twilio, twiml, frontend>>

\* redis.setEx(key, 3600, ...): the key of a session expires in the cache, one
\* hour after its last write at the earliest
KeyExpires(s) ==
  /\ s \in old
  /\ cache[s] # NoSession
  /\ cache' = [cache EXCEPT ![s] = NoSession]
  /\ ev' = [kind |-> "expire", c |-> "none", s |-> s, tok |-> NoToken]
  /\ out' = {}
  /\ ret' = NoRet
  /\ UNCHANGED <<activeSessions, mapKeys, issued, connected, closed, socketUserId,
                 connectedClients, rooms, queue, failures, events, ended, authed, joined,
                 old, fifo, twilio, twiml, frontend>>

\* variant: the sweep takes every session for expired
IsExpired_Always(s, expired) == TRUE

\* createdAt < oneHourAgo, oneHourAgo computed when the sweep starts
IsExpired(s, expired) == s \in expired

\* the positions of the map entries the iterator of activeSessions.entries()
\* will stop at: an entry it has deleted is gone, one that was set again is at
\* the end, and an entry that is not expired is passed without effect
Victims(expired) == {i \in DOMAIN mapKeys : IsExpired(mapKeys[i], expired)}

SweepResult(t) ==
  [op |-> "cleanup", ok |-> TRUE, s |-> NoId, u |-> NoUser, c |-> "none",
   session |-> NoSession, task |-> t]

\* the for-loop of cleanupExpiredSessions from its current position up to its
\* next await deleteSession, or to its end
SweepStep(t, q) ==
  IF Victims(t.expired) = {}
  THEN /\ queue' = q
       /\ ret' = SweepResult(t)
       /\ UNCHANGED <<activeSessions, mapKeys, cache, failures>>
  ELSE LET i == CHOOSE k \in Victims(t.expired) : \A j \in Victims(t.expired) : k <= j
           s == mapKeys[i]
       IN /\ Len(q) < MaxInFlight
          /\ \E ok \in BOOLEAN :
               /\ CacheCall(ok)
               /\ activeSessions' = [activeSessions EXCEPT ![s] = NoSession]
               /\ mapKeys' = RemoveKey(mapKeys, s)
               /\ cache' = deleteSession(cache, s, ok)
               /\ queue' = Append(Detach(q, s, activeSessions[s]), [t EXCEPT !.s = s, !.ok = ok])
          /\ ret' = NoRet

\* webrtcService.cleanupExpiredSessions(), up to its first await
Cleanup ==
  /\ ClientEvent
  /\ ev' = [kind |-> "cleanup", c |-> "none", s |-> NoId, tok |-> NoToken]
  /\ out' = {}
  /\ SweepStep([Task("cleanup", "del", "none", NoUser, NoId, TRUE) EXCEPT
                  !.expired = old, !.todo = mapKeys, !.failed = failures], queue)
  /\ UNCHANGED <<issued, connected, closed, socketUserId, connectedClients, rooms,
                 ended, authed, joined, old, fifo, twilio, twiml, frontend>>

\* ---------------------------------------------------------------- deleteSession
\* webrtcService.deleteSession(sessionId) called on its own, up to await redis.del
DeleteSession(s) ==
  /\ ClientEvent
  /\ CanSuspend
  /\ ev' = [kind |-> "delete", c |-> "none", s |-> s, tok |-> NoToken]
  /\ out' = {}
  /\ ret' = NoRet
  /\ \E ok \in BOOLEAN :
       /\ CacheCall(ok)
       /\ cache' = deleteSession(cache, s, ok)
       /\ queue' = Append(queue, Task("delete", "del", "none", NoUser, s, ok))
  /\ UNCHANGED <<activeSessions, mapKeys, issued, connected, closed, socketUserId,
                 connectedClients, rooms, ended, authed, joined, old, fifo, twilio, twiml, frontend>>

\* ---------------------------------------------------------------- disconnect
\* webrtcService.getAllActiveSessions().filter(some participant has this socketId),
\* in the iteration order of the map
SessionsOfSocket(c) ==
  SelectSeq(mapKeys, LAMBDA s :
    \E i \in DOMAIN activeSessions[s].participants :
       activeSessions[s].participants[i].socketId = c)

\* socket.on('disconnect'), up to the first await; socket.io has removed the
\* socket from all its rooms before the handler runs
Disconnect(c) ==
  /\ c \in connected
  /\ ClientEvent
  /\ connected' = connected \ {c}
  /\ closed' = closed \cup {c}
  /\ rooms' = [s \in SessionIds |-> rooms[s] \ {c}]
  /\ joined' = [joined EXCEPT ![c] = {}]
  /\ ev' = [kind |-> "disconnect", c |-> c, s |-> NoId, tok |-> NoToken]
  /\ out' = {}
  /\ ret' = NoRet
  /\ IF connectedClients[c] = NoUser
     THEN UNCHANGED <<failures, ended, activeSessions, mapKeys, cache, queue, connectedClients>>
     ELSE LET todo == SessionsOfSocket(c)
          IN IF todo = <<>>
             THEN /\ connectedClients' = [connectedClients EXCEPT ![c] = NoUser]
                  /\ UNCHANGED <<failures, ended, activeSessions, mapKeys, cache, queue>>
             ELSE /\ CanSuspend
                  /\ \E ok \in BOOLEAN :
                       ApplyLeave([Task("disconnect", "store", c, connectedClients[c], Head(todo), ok)
                                     EXCEPT !.todo = Tail(todo)], queue, ok)
                  /\ UNCHANGED connectedClients
  /\ UNCHANGED <<issued, authed, socketUserId, old, fifo, twilio, twiml, frontend>>

\* ---------------------------------------------------------------- twilioService
\* the participants a caller can name: a WhatsApp address and a phone number
Callees == {[number |-> "whatsapp:+1987654321", isWhatsApp |-> TRUE],
            [number |-> "+1234567890", isWhatsApp |-> FALSE]}

RECURSIVE ParticipantLists(_)
\* every participants array of length n
ParticipantLists(n) ==
  IF n = 0 THEN {<<>>}
  ELSE {Append(ps, p) : ps \in ParticipantLists(n - 1), p \in Callees}

\* the callId argument of createConferenceCall
CallIds == {"call-1", "call-2"}

\* `whatsapp-call-${callId}`
FriendlyName(callId) == "whatsapp-call-" \o callId

\* no friendlyName: calls.create has none
NoName == "none"

\* this.client.conferences.create({friendlyName: `whatsapp-call-${callId}`, ...})
ConferenceRequest(callId) ==
  [kind |-> "conferences.create", to |-> "none", from |-> "none", conference |-> NoSid,
   friendlyName |-> FriendlyName(callId)]

\* the sids the gateway may give to a conference
ConferenceSids == {"CF123456789", "CF987654321"}

\* this.client.calls.create({to, from, url: .../conference/${conferenceSid}/join, ...})
CallRequest(sid, p) ==
  [kind |-> "calls.create", to |-> p.number,
   from |-> IF p.isWhatsApp THEN "whatsappNumber" ELSE "voiceNumber",
   conference |-> sid, friendlyName |-> NoName]

\* variant: every leg is requested twice
LegRequests_Retry(sid, ps) ==
  [i \in 1..(2 * Len(ps)) |-> CallRequest(sid, ps[(i + 1) \div 2])]

\* participants.map(participant => this.addToConference(conference.sid, participant)):
\* the requests the addToConference calls send, in the order of the array
LegRequests(sid, ps) == [i \in DOMAIN ps |-> CallRequest(sid, ps[i])]

\* return {conferenceSid, status: 'created', participants: participants.length}
Returned(sid, ps) ==
  [kind |-> "returned", conferenceSid |-> sid, status |-> "created", participants |-> Len(ps)]

\* throw new Error(`Conference call creation failed: ${error.message}`)
Thrown == [kind |-> "thrown"]

\* no request of the last createConferenceCall is waiting for the gateway
Idle ==
  /\ conference # "pending"
  /\ updates = {}
  /\ \A i \in DOMAIN participantPromises : participantPromises[i] # "pending"

\* await Promise.all(participantPromises): rejects with the first rejection,
\* resolves when every promise has resolved
AllOutcome(promises, sid, ps) ==
  IF \E i \in DOMAIN promises : promises[i] = "rejected" THEN Thrown
  ELSE IF \E i \in DOMAIN promises : promises[i] = "pending" THEN NoOutcome
  ELSE Returned(sid, ps)

\* createConferenceCall(callId, participants), up to await conferences.create
CreateConferenceCall(callId, ps) ==
  /\ Idle
  /\ participants' = ps
  /\ conference' = "pending"
  /\ conferenceSid' = NoSid
  /\ participantPromises' = <<>>
  /\ requests' = <<ConferenceRequest(callId)>>
  /\ outcome' = NoOutcome
  /\ callStatus' = <<>>
  /\ updates' = {}
  /\ endOutcome' = NoEnd
  /\ UNCHANGED <<relay, twiml, frontend>>

\* the gateway answers conferences.create; on success every addToConference
\* runs up to its await calls.create, then createConferenceCall awaits them all
ConferenceReply(ok) ==
  /\ conference = "pending"
  /\ IF ok
     THEN /\ conference' = "created"
          /\ conferenceSid' \in ConferenceSids
          /\ participantPromises' = [i \in DOMAIN participants |-> "pending"]
          /\ requests' = requests \o LegRequests(conferenceSid', participants)
          /\ outcome' = AllOutcome(participantPromises', conferenceSid', participants)
          /\ callStatus' = [i \in DOMAIN participants |-> "none"]
     ELSE /\ conference' = "failed"
          /\ outcome' = Thrown
          /\ UNCHANGED <<conferenceSid, participantPromises, requests, callStatus>>
  /\ UNCHANGED <<participants, updates, endOutcome, relay, twiml, frontend>>

\* the gateway answers the calls.create of leg i: addToConference returns or
\* rethrows, and the pending Promise.all may settle
CallReply(i, ok) ==
  /\ i \in DOMAIN participantPromises
  /\ participantPromises[i] = "pending"
  /\ participantPromises' = [participantPromises EXCEPT ![i] = IF ok THEN "fulfilled" ELSE "rejected"]
  /\ outcome' = IF outcome = NoOutcome
                THEN AllOutcome(participantPromises', conferenceSid, participants)
                ELSE outcome
  /\ callStatus' = [callStatus EXCEPT ![i] = IF ok THEN "in-progress" ELSE "none"]
  /\ UNCHANGED <<conference, conferenceSid, participants, requests, updates, endOutcome, relay, twiml, frontend>>

\* the state of createConferenceCall, which endCall does not touch
conferenceCall == <<conference, conferenceSid, participants, participantPromises, requests, outcome>>

\* the callee hangs up, or the gateway ends the call of leg i for its own reasons
CallCompletes(i) ==
  /\ i \in DOMAIN callStatus
  /\ callStatus[i] = "in-progress"
  /\ callStatus' = [callStatus EXCEPT ![i] = "completed"]
  /\ UNCHANGED <<conferenceCall, updates, endOutcome, relay, twiml, frontend>>

\* endCall(callSid) for the call of leg i, up to
\* await this.client.calls(callSid).update({status: 'completed'})
EndCall(i) ==
  /\ i \in DOMAIN participantPromises
  /\ participantPromises[i] = "fulfilled"
  /\ i \notin updates
  /\ updates' = updates \cup {i}
  /\ endOutcome' = NoEnd
  /\ UNCHANGED <<conferenceCall, callStatus, relay, twiml, frontend>>

\* what the gateway may answer to an update of a call in the given status:
\* it ends a call that is in progress; for one that is already completed it
\* either returns the call or reports that the call has already ended
UpdateReplies(status) ==
  IF status = "in-progress" THEN {"ok", "error"}
  ELSE {"ok", "already-ended", "error"}

\* the gateway answers the update of leg i: endCall returns the call, or logs
\* the error and rethrows it
UpdateReply(i, reply) ==
  /\ i \in updates
  /\ reply \in UpdateReplies(callStatus[i])
  /\ updates' = updates \ {i}
  /\ callStatus' = IF reply = "ok" THEN [callStatus EXCEPT ![i] = "completed"] ELSE callStatus
  /\ endOutcome' = [kind |-> IF reply = "ok" THEN "returned" ELSE "thrown", leg |-> i, reply |-> reply]
  /\ UNCHANGED <<conferenceCall, relay, twiml, frontend>>

\* ---------------------------------------------------------------- generateConferenceTwiML
\* a || b of JavaScript, for the values an option can have
Or(a, b) == IF a \in {"undefined", "false"} THEN b ELSE a

OptionValues == {"undefined", "true", "false"}
\* the options argument; a key that is not given reads as undefined
Options == [startOnEnter : OptionValues, endOnExit : OptionValues]
ConferenceNames == {"room-42", "test-conference"}

\* variant: the conference is named after the sid of the conference in progress
generateConferenceTwiML_Sid(conferenceName, options) ==
  [conference |-> IF conferenceSid = NoSid THEN conferenceName ELSE conferenceSid,
   startConferenceOnEnter |-> Or(options.startOnEnter, "true"),
   endConferenceOnExit |-> Or(options.endOnExit, "false"),
   waitUrl |-> "",
   maxParticipants |-> "10",
   record |-> "record-from-start",
   startOnEnter |-> options.startOnEnter,
   endOnExit |-> options.endOnExit]

\* response.dial().conference({...}, conferenceName); response.toString():
\* the <Conference> element, its attributes (those of ...options last; an
\* undefined one is not written) and its text
generateConferenceTwiML(conferenceName, options) ==
  [conference |-> conferenceName,
   startConferenceOnEnter |-> Or(options.startOnEnter, "true"),
   endConferenceOnExit |-> Or(options.endOnExit, "false"),
   waitUrl |-> "",
   maxParticipants |-> "10",
   record |-> "record-from-start",
   startOnEnter |-> options.startOnEnter,
   endOnExit |-> options.endOnExit]

\* one call of generateConferenceTwiML
GenerateConferenceTwiML(conferenceName, options) ==
  /\ twiml' = (IF twiml = <<>> THEN <<>> ELSE <<twiml[Len(twiml)]>>) \o
               <<[conferenceName |-> conferenceName, options |-> options,
                  markup |-> generateConferenceTwiML(conferenceName, options)]>>
  /\ UNCHANGED <<twilio, relay, frontend>>

\* ---------------------------------------------------------------- AuthProvider
JwtTokens == {"jwt-token", "new-token"}
UserInfo == "user123"

\* what is kept of the call that acted last: whether its request succeeded,
\* and the user that was logged in before it acted
Settled(op, ok) == [op |-> op, ok |-> ok, user |-> browser.user]

\* authService.setAuthToken(token): the Authorization header is set, or deleted
setAuthToken(b, token) == [b EXCEPT !.header = token]

\* a call of AuthProvider starts to wait for the server
Await(op, pc, tok) ==
  /\ Len(calls) < MaxBrowserCalls
  /\ calls' = Append(calls, [op |-> op, pc |-> pc, tok |-> tok])

\* the call at position i goes on to wait for pc, or is over
Goes(i, pc) == [calls EXCEPT ![i].pc = pc]
Over(i) == [j \in 1..(Len(calls) - 1) |-> IF j < i THEN calls[j] ELSE calls[j + 1]]

\* checkAuth up to await authService.validateToken(storedToken)
CheckAuth ==
  /\ IF browser.stored = Null
     THEN /\ browser' = [browser EXCEPT !.last = Settled("checkAuth", TRUE)]
          /\ UNCHANGED calls
     ELSE /\ Await("checkAuth", "validateToken", browser.stored)
          /\ UNCHANGED browser
  /\ UNCHANGED <<relay, twilio, twiml, http>>

\* checkAuth after validateToken, which never throws: {valid: false} on an error
CheckAuthValidated(i, valid) ==
  /\ i \in DOMAIN calls /\ calls[i].op = "checkAuth" /\ calls[i].pc = "validateToken"
  /\ IF valid
     THEN /\ calls' = Goes(i, "getUserInfo")
          /\ UNCHANGED browser
     ELSE /\ calls' = Over(i)
          /\ browser' = [browser EXCEPT !.stored = Null, !.token = Null, !.last = Settled("checkAuth", FALSE)]
  /\ UNCHANGED <<relay, twilio, twiml, http>>

\* checkAuth after getUserInfo, or its catch block
CheckAuthUserInfo(i, ok) ==
  /\ i \in DOMAIN calls /\ calls[i].op = "checkAuth" /\ calls[i].pc = "getUserInfo"
  /\ calls' = Over(i)
  /\ browser' = IF ok
                THEN [setAuthToken(browser, calls[i].tok) EXCEPT
                        !.user = UserInfo, !.token = calls[i].tok, !.last = Settled("checkAuth", TRUE)]
                ELSE [browser EXCEPT !.stored = Null, !.token = Null, !.last = Settled("checkAuth", FALSE)]
  /\ UNCHANGED <<relay, twilio, twiml, http>>

\* login up to await authService.handleOAuthCallback(authData)
Login ==
  /\ Await("login", "handleOAuthCallback", Null)
  /\ UNCHANGED <<browser, relay, twilio, twiml, http>>

\* login after handleOAuthCallback: a response with a token, one without, or
\* an error that is thrown on
LoginCallback(i, reply) ==
  /\ i \in DOMAIN calls /\ calls[i].op = "login" /\ calls[i].pc = "handleOAuthCallback"
  /\ IF reply \in JwtTokens
     THEN /\ calls' = Goes(i, "getUserInfo")
          /\ browser' = [setAuthToken(browser, reply) EXCEPT
                          !.stored = reply, !.token = reply, !.last = Settled("login", TRUE)]
     ELSE /\ calls' = Over(i)
          /\ browser' = [browser EXCEPT !.last = Settled("login", reply # "error")]
  /\ UNCHANGED <<relay, twilio, twiml, http>>

\* login after getUserInfo
LoginUserInfo(i, ok) ==
  /\ i \in DOMAIN calls /\ calls[i].op = "login" /\ calls[i].pc = "getUserInfo"
  /\ calls' = Over(i)
  /\ browser' = IF ok THEN [browser EXCEPT !.user = UserInfo, !.last = Settled("login", TRUE)]
                ELSE [browser EXCEPT !.last = Settled("login", FALSE)]
  /\ UNCHANGED <<relay, twilio, twiml, http>>

\* logout up to await authService.disconnect()
Logout ==
  /\ Await("logout", "disconnect", Null)
  /\ UNCHANGED <<browser, relay, twilio, twiml, http>>

\* variant: the cleanup is the rest of the try block
AfterLogout_Try(b, ok) ==
  IF ok THEN [setAuthToken(b, Null) EXCEPT !.stored = Null, !.token = Null, !.user = Null]
  ELSE b

\* the finally block of logout: localStorage.removeItem, setToken(null),
\* setUser(null), authService.setAuthToken(null)
AfterLogout(b, ok) ==
  [setAuthToken(b, Null) EXCEPT !.stored = Null, !.token = Null, !.user = Null]

\* logout after disconnect has resolved or thrown
LogoutSettles(i, ok) ==
  /\ i \in DOMAIN calls /\ calls[i].op = "logout"
  /\ calls' = Over(i)
  /\ browser' = [AfterLogout(browser, ok) EXCEPT !.last = Settled("logout", ok)]
  /\ UNCHANGED <<relay, twilio, twiml, http>>

\* refreshToken up to await authService.refreshToken()
RefreshToken ==
  /\ Await("refreshToken", "refreshToken", Null)
  /\ UNCHANGED <<browser, relay, twilio, twiml, http>>

\* refreshToken after the server's answer; on an error: await logout()
RefreshSettles(i, reply) ==
  /\ i \in DOMAIN calls /\ calls[i].op = "refreshToken"
  /\ IF reply = "error"
     THEN /\ calls' = [calls EXCEPT ![i] = [op |-> "logout", pc |-> "disconnect", tok |-> Null]]
          /\ UNCHANGED browser
     ELSE /\ calls' = Over(i)
          /\ browser' = IF reply \in JwtTokens
                        THEN [setAuthToken(browser, reply) EXCEPT
                                !.stored = reply, !.token = reply, !.last = Settled("refreshToken", TRUE)]
                        ELSE [browser EXCEPT !.last = Settled("refreshToken", TRUE)]
  /\ UNCHANGED <<relay, twilio, twiml, http>>

\* the options the join route passes: none of them is startOnEnter or endOnExit
RouteOptions == [startOnEnter |-> "undefined", endOnExit |-> "undefined"]

\* POST /twilio/conference/:conferenceSid/join, fetched by the gateway with the
\* url of leg i's calls.create once the callee has answered:
\* twilioService.generateConferenceTwiML(conferenceSid, {...})
ConferenceJoin(i) ==
  /\ i \in DOMAIN callStatus
  /\ callStatus[i] = "in-progress"
  /\ GenerateConferenceTwiML(requests[i + 1].conference, RouteOptions)

\* ---------------------------------------------------------------- apiClient
\* what the server answers: a status, or nothing (network error)
Statuses == {200, 401, 429, 500, 0}

\* apiClient(config): the request interceptor has run and the request is sent
Sent(r, pc) == [r EXCEPT !.pc = pc, !.sends = @ + 1]

\* variant: the flag is not kept on the request
MarkRetry_Lost(r) == r

\* originalRequest._retry = true
MarkRetry(r) == [r EXCEPT !.retry = TRUE]

\* a component calls apiClient.get / post
Request ==
  /\ Len(http) < MaxRequests
  /\ http' = Append(http, Sent([pc |-> "new", retry |-> FALSE, sends |-> 0, refreshes |-> 0,
                                 status |-> 200], "sent"))
  /\ UNCHANGED <<browser, calls, relay, twilio, twiml>>

\* the answer to request i: the response interceptor's success handler, or its
\* error handler up to await axios.post(.../auth/refresh) or to Promise.reject
Response(i, status) ==
  /\ i \in DOMAIN http /\ http[i].pc = "sent"
  /\ http[i].sends < MaxSends
  /\ http' = [http EXCEPT ![i] =
       IF status = 200 THEN [@ EXCEPT !.pc = "resolved", !.status = status]
       ELSE IF status = 401 /\ ~@.retry
            THEN [MarkRetry(@) EXCEPT !.pc = "refresh", !.refreshes = @ + 1, !.status = status]
            ELSE [@ EXCEPT !.pc = "rejected", !.status = status]]
  /\ UNCHANGED <<browser, calls, relay, twilio, twiml>>

\* the answer to the refresh of request i, which is sent with axios itself and
\* so passes no interceptor: the new token is stored and the request sent
\* again, or the stored token is removed and the request rejected
Refreshed(i, reply) ==
  /\ i \in DOMAIN http /\ http[i].pc = "refresh"
  /\ IF reply \in JwtTokens
     THEN /\ browser' = [browser EXCEPT !.stored = reply, !.last = Settled("refresh", TRUE)]
          /\ http' = [http EXCEPT ![i] = Sent(@, "sent")]
     ELSE /\ browser' = [browser EXCEPT !.stored = Null, !.last = Settled("refresh", FALSE)]
          /\ http' = [http EXCEPT ![i] = [@ EXCEPT !.pc = "rejected"]]
  /\ UNCHANGED <<calls, relay, twilio, twiml>>

\* ---------------------------------------------------------------- continuations
Error(t) == [op |-> t.op, ok |-> FALSE, s |-> t.s, u |-> t.u, c |-> t.c]
Result(t) == [op |-> t.op, ok |-> TRUE, s |-> t.s, u |-> t.u, c |-> t.c,
              session |-> Deref(t), task |-> t]

\* createSession after await storeSession
ResumeCreate(t, q) ==
  /\ t.op = "create"
  /\ queue' = q
  /\ out' = {}
  /\ ret' = IF t.ok THEN Result(t) ELSE Error(t)
  /\ UNCHANGED <<failures, ended, activeSessions, mapKeys, cache, connectedClients, joined>>

\* joinSession after await getSession: 'Session not found', or put the parsed
\* object into the map, push the participant and issue the cache write
ResumeJoinGet(t, q) ==
  /\ t.op \in {"join", "restjoin"} /\ t.pc = "get"
  /\ IF t.res = NoSession
     THEN /\ queue' = q
          /\ out' = IF t.op = "join" THEN {Fail("session:error", t.c, t.s, "session:join", SessionNotFound)}
                     ELSE {}
          /\ ret' = Error(t)
          /\ UNCHANGED <<failures, ended, activeSessions, mapKeys, cache>>
     ELSE /\ \E ok \in BOOLEAN :
               /\ CacheCall(ok)
               /\ activeSessions' = [activeSessions EXCEPT
                    ![t.s] = PushParticipant(t.res, t.u, t.c)]
               /\ mapKeys' = SetKey(mapKeys, t.s)
               /\ cache' = storeSession(t.s, activeSessions'[t.s], ok)
               /\ queue' = Append(IF activeSessions[t.s] = NoSession THEN q
                                  ELSE Detach(q, t.s, activeSessions[t.s]),
                                  [t EXCEPT !.pc = "store", !.ok = ok])
          /\ out' = {}
          /\ ret' = NoRet
          /\ UNCHANGED ended
  /\ UNCHANGED <<connectedClients, joined>>

\* session:join after await webrtcService.joinSession
ResumeJoinStore(t, q) ==
  /\ t.op = "join" /\ t.pc = "store"
  /\ queue' = q
  /\ IF t.ok
     THEN /\ out' = {ToRoom("participant:joined", t.c, t.s), Reply("session:joined", t.c, t.s)}
          /\ ret' = Result(t)
          /\ joined' = IF t.c \in rooms[t.s] THEN [joined EXCEPT ![t.c] = @ \cup {t.s}] ELSE joined
     ELSE /\ out' = {Fail("session:error", t.c, t.s, "session:join", CacheError)}
          /\ ret' = Error(t)
          /\ UNCHANGED joined
  /\ UNCHANGED <<failures, ended, activeSessions, mapKeys, cache, connectedClients>>

\* the REST join after await webrtcService.joinSession: req.io.to(room).emit
\* reaches every socket of the room; a failure is answered with status 500
ResumeRestJoin(t, q) ==
  /\ t.op = "restjoin" /\ t.pc = "store"
  /\ queue' = q
  /\ IF t.ok
     THEN /\ out' = {[ev |-> "participant:joined", from |-> "none", uid |-> t.u, sid |-> t.s,
                      to |-> rooms[t.s], error |-> NoError]}
          /\ ret' = Result(t)
     ELSE /\ out' = {}
          /\ ret' = Error(t)
  /\ UNCHANGED <<failures, ended, activeSessions, mapKeys, cache, connectedClients, joined>>

\* session:leave after await webrtcService.leaveSession
ResumeLeave(t, q) ==
  /\ t.op = "leave"
  /\ queue' = q
  /\ IF t.pc = "store" /\ ~t.ok
     THEN /\ out' = {}
          /\ ret' = Error(t)
     ELSE /\ out' = {ToRoom("participant:left", t.c, t.s)}
          /\ ret' = Result(t)
  /\ UNCHANGED <<failures, ended, activeSessions, mapKeys, cache, connectedClients, joined>>

\* cleanupExpiredSessions after await this.deleteSession: the loop goes on
ResumeCleanup(t, q) ==
  /\ t.op = "cleanup"
  /\ out' = {}
  /\ SweepStep(t, q)
  /\ UNCHANGED <<ended, connectedClients, joined>>

\* deleteSession after await redis.del: a failure is logged, nothing is thrown
ResumeDelete(t, q) ==
  /\ t.op = "delete"
  /\ queue' = q
  /\ out' = {}
  /\ ret' = Result(t)
  /\ UNCHANGED <<failures, ended, activeSessions, mapKeys, cache, connectedClients, joined>>

\* disconnect after await webrtcService.leaveSession: notify, then go on
\* with the next session of the list, or remove the client when it is done
ResumeDisconnect(t, q) ==
  /\ t.op = "disconnect"
  /\ UNCHANGED joined
  /\ IF t.pc = "store" /\ ~t.ok
     THEN /\ out' = {}
          /\ ret' = Error(t)
          /\ queue' = q
          /\ UNCHANGED <<failures, ended, activeSessions, mapKeys, cache, connectedClients>>
     ELSE /\ out' = {[ToRoom("participant:left", t.c, t.s) EXCEPT !.uid = t.u]}
          /\ IF t.todo = <<>>
             THEN /\ connectedClients' = [connectedClients EXCEPT ![t.c] = NoUser]
                  /\ ret' = Result(t)
                  /\ queue' = q
                  /\ UNCHANGED <<failures, ended, activeSessions, mapKeys, cache>>
             ELSE /\ UNCHANGED connectedClients
                  /\ IF activeSessions[Head(t.todo)] = NoSession
                     THEN /\ ret' = Error([t EXCEPT !.s = Head(t.todo)])
                          /\ queue' = q
                          /\ UNCHANGED <<failures, ended, activeSessions, mapKeys, cache>>
                     ELSE /\ ret' = Result(t)
                          /\ \E ok \in BOOLEAN :
                               ApplyLeave([t EXCEPT !.s = Head(t.todo), !.todo = Tail(t.todo),
                                                    !.solo = (\A i \in DOMAIN q : q[i].s # Head(t.todo))],
                                          q, ok)

\* the cache answers the oldest pending call; its handler runs to its next await
Resume ==
  /\ queue # <<>>
  /\ LET t == Head(queue)
         q == Tail(queue)
     IN /\ ev' = [kind |-> "resume", c |-> t.c, s |-> t.s, tok |-> NoToken]
        /\ \/ ResumeCreate(t, q)
           \/ ResumeJoinGet(t, q)
           \/ ResumeJoinStore(t, q)
           \/ ResumeRestJoin(t, q)
           \/ ResumeLeave(t, q)
           \/ ResumeDisconnect(t, q)
           \/ ResumeCleanup(t, q)
           \/ ResumeDelete(t, q)
  /\ UNCHANGED <<issued, authed, connected, closed, socketUserId, rooms, events, old, fifo, twilio, twiml, frontend>>

Next ==
  \/ Connect
  \/ \E c \in Sockets, tok \in Tokens : Authenticate(c, tok)
  \/ \E u \in Users : CreateSession(u)
  \/ \E c \in Sockets, s \in SessionIds, kind \in RelayKinds : Signal(c, s, kind)
  \/ \E c \in Sockets, s \in SessionIds : SessionJoin(c, s)
  \/ \E c \in Sockets, s \in SessionIds : SessionLeave(c, s)
  \/ \E c \in Sockets : Disconnect(c)
  \/ Resume

Spec == Init /\ [][Next]_vars

\* The connection, authentication and session handlers without the three
\* relay handlers.  A relay handler assigns no variable of the program (it
\* only emits), so the states in which the session handlers run are the same
\* with and without them.
NextSession ==
  \/ Connect
  \/ \E c \in Sockets, tok \in Tokens : Authenticate(c, tok)
  \/ \E u \in Users : CreateSession(u)
  \/ \E c \in Sockets, s \in SessionIds : SessionJoin(c, s)
  \/ \E c \in Sockets, s \in SessionIds : SessionLeave(c, s)
  \/ \E c \in Sockets : Disconnect(c)
  \/ Resume

SpecSession == InitSession /\ [][NextSession]_vars

\* every socket event, with and without a payload
NextErrors ==
  \/ NextSession
  \/ \E c \in Sockets, s \in SessionIds, kind \in RelayKinds : Signal(c, s, kind)
  \/ \E c \in Sockets, kind \in Handlers : Malformed(c, kind)
  \/ \E c \in Sockets : CallAcceptInbound(c)

SpecErrors == InitErrors /\ [][NextErrors]_vars

\* ---------------------------------------------------------------- webhooks
\* req.io.emit(name, data): the server-wide emit, to every connected socket
Broadcast(name) ==
  [ev |-> name, from |-> "none", uid |-> NoUser, sid |-> NoId, to |-> connected,
   error |-> NoError]

Directions == {"inbound", "outbound-api"}

\* req.body.From: a WhatsApp address, a telephone number, or absent
Froms == {"whatsapp:+1", "+1", Undefined}

\* callData.from.startsWith('whatsapp:')
startsWithWhatsapp(from) == from = "whatsapp:+1"

WebhookHandled(route) ==
  /\ ClientEvent
  /\ ev' = [kind |-> route, c |-> "none", s |-> NoId, tok |-> NoToken]
  /\ ret' = NoRet
  /\ UNCHANGED <<failures, ended, activeSessions, mapKeys, cache, issued, authed, connected, closed,
                 socketUserId, connectedClients, rooms, queue, joined, old, fifo, twilio, twiml, frontend>>

\* POST /api/webhooks/twilio/voice: an inbound WhatsApp call is announced;
\* an absent From makes startsWith throw and the catch block answers
TwilioVoice(direction, from) ==
  /\ WebhookHandled("twilio:voice")
  /\ out' = IF direction = "inbound" /\ from # Undefined /\ startsWithWhatsapp(from)
            THEN {Broadcast("inbound:whatsapp-call")}
            ELSE {}

\* POST /api/webhooks/twilio/status
TwilioStatus ==
  /\ WebhookHandled("twilio:status")
  /\ out' = {Broadcast("call:status-update")}

\* POST /api/webhooks/twilio/conference
TwilioConference ==
  /\ WebhookHandled("twilio:conference")
  /\ out' = {Broadcast("conference:event")}

\* The connection, authentication and session handlers with the webhook routes.
NextWebhooks ==
  \/ NextSession
  \/ \E direction \in Directions, from \in Froms : TwilioVoice(direction, from)
  \/ TwilioStatus
  \/ TwilioConference

SpecWebhooks == InitWebhooks /\ [][NextWebhooks]_vars

\* The whole relay together with the REST join route.
NextRest ==
  \/ Next
  \/ \E u \in Users, s \in SessionIds, c \in Sockets : RestJoin(u, s, c)

SpecRest == InitRest /\ [][NextRest]_vars

\* The session handlers together with the passing of time and the expiry sweep.
NextSweep ==
  \/ NextSession
  \/ HourPasses
  \/ \E s \in SessionIds : KeyExpires(s)
  \/ Cleanup

SpecSweep == InitSweep /\ [][NextSweep]_vars

\* The session handlers together with direct calls of deleteSession.
NextDelete ==
  \/ NextSession
  \/ \E s \in SessionIds : DeleteSession(s)

SpecDelete == InitDelete /\ [][NextDelete]_vars

\* TwilioService.createConferenceCall and the telephony gateway.
NextConference ==
  \/ \E callId \in CallIds, n \in 0..MaxLegs : \E ps \in ParticipantLists(n) :
        CreateConferenceCall(callId, ps)
  \/ \E ok \in BOOLEAN : ConferenceReply(ok)
  \/ \E i \in 1..MaxLegs, ok \in BOOLEAN : CallReply(i, ok)

SpecConference == InitConference /\ [][NextConference]_vars

\* TwilioService.createConferenceCall and endCall, and the telephony gateway.
NextEndCall ==
  \/ NextConference
  \/ \E i \in 1..MaxLegs : CallCompletes(i)
  \/ \E i \in 1..MaxLegs : EndCall(i)
  \/ \E i \in 1..MaxLegs, reply \in {"ok", "already-ended", "error"} : UpdateReply(i, reply)

SpecEndCall == InitConference /\ [][NextEndCall]_vars

\* TwilioService.generateConferenceTwiML next to a createConferenceCall with one
\* participant
NextTwiML ==
  \/ \E callId \in CallIds, ps \in ParticipantLists(1) : CreateConferenceCall(callId, ps)
  \/ \E ok \in BOOLEAN : ConferenceReply(ok)
  \/ \E ok \in BOOLEAN : CallReply(1, ok)
  \/ \E conferenceName \in ConferenceNames, options \in Options :
        GenerateConferenceTwiML(conferenceName, options)

SpecTwiML == InitConference /\ [][NextTwiML]_vars

\* createConferenceCall and the join route the gateway fetches for each leg
NextJoin ==
  \/ NextConference
  \/ \E i \in 1..MaxLegs : ConferenceJoin(i)

SpecJoin == InitConference /\ [][NextJoin]_vars

\* the calls of AuthProvider and the answers of the server
NextAuth ==
  \/ CheckAuth
  \/ \E i \in 1..MaxBrowserCalls, valid \in BOOLEAN : CheckAuthValidated(i, valid)
  \/ \E i \in 1..MaxBrowserCalls, ok \in BOOLEAN : CheckAuthUserInfo(i, ok)
  \/ Login
  \/ \E i \in 1..MaxBrowserCalls, reply \in JwtTokens \cup {Null, "error"} : LoginCallback(i, reply)
  \/ \E i \in 1..MaxBrowserCalls, ok \in BOOLEAN : LoginUserInfo(i, ok)
  \/ Logout
  \/ \E i \in 1..MaxBrowserCalls, ok \in BOOLEAN : LogoutSettles(i, ok)
  \/ RefreshToken
  \/ \E i \in 1..MaxBrowserCalls, reply \in JwtTokens \cup {Null, "error"} : RefreshSettles(i, reply)

SpecAuth == InitConference /\ [][NextAuth]_vars

\* requests through apiClient and the answers of the server
NextApi ==
  \/ Request
  \/ \E i \in 1..MaxRequests, status \in Statuses : Response(i, status)
  \/ \E i \in 1..MaxRequests, reply \in JwtTokens \cup {"error"} : Refreshed(i, reply)

SpecApi == InitConference /\ [][NextApi]_vars

\* the events of socket c can be handled now: while a relay handler waits in
\* the microtask queue, only further events of the same socket, received in
\* the same batch, are handled before it goes on
Batch(c) == \A i \in DOMAIN micro : micro[i].c = c

\* The relay handlers in their two steps, on an established session.
NextFifo ==
  \/ \E c \in Sockets, s \in SessionIds, kind \in RelayKinds, claimed \in ClaimedIds :
       Batch(c) /\ SignalStart(c, s, kind, claimed)
  \/ SignalEmit
  \/ \E c \in Sockets, tok \in Tokens : Batch(c) /\ Authenticate(c, tok)
  \/ \E c \in Sockets, s \in SessionIds : Batch(c) /\ SessionJoin(c, s)
  \/ \E c \in Sockets, s \in SessionIds : Batch(c) /\ SessionLeave(c, s)
  \/ \E c \in Sockets : micro = <<>> /\ Disconnect(c)
  \/ micro = <<>> /\ Resume

SpecFifo == InitFifo /\ [][NextFifo]_vars

\* the same handlers, from the state in which a user has a second channel
SpecRejoin == InitRejoin /\ [][NextFifo]_vars

TypeOK ==
  /\ \A s \in SessionIds : activeSessions[s] # NoSession => s \in issued
  /\ Len(queue) <= MaxInFlight

\* ================================================================ properties
ErrorKinds == {"error", "webrtc:error", "session:error"}

\* a session:join of socket c for session s is still in flight
JoinPending(c, s) ==
  \E i \in DOMAIN queue : queue[i].op = "join" /\ queue[i].c = c /\ queue[i].s = s

IsParticipant(u, s) ==
  \E i \in DOMAIN activeSessions[s].participants :
     activeSessions[s].participants[i].userId = u

HasEntry(session, u, c) ==
  \E i \in DOMAIN session.participants :
     session.participants[i] = [userId |-> u, socketId |-> c]

\* the last step completed a leaveSession call that returned normally
LeaveDone == ret.op \in {"leave", "disconnect"} /\ ret.ok
\* ... and that call had emptied the participant list
Drained == ret.task.pc = "del"
\* the last step completed a joinSession call that returned normally
JoinDone == ret.op \in {"join", "restjoin"} /\ ret.ok
\* the session had participants when the completed leaveSession was called
HadParticipants == Len(ret.task.before) >= 1
\* no other operation on the session was in flight during the completed call
Sequential ==
  /\ ret.task.solo
  /\ \A i \in DOMAIN queue : queue[i].s # ret.s

\* C1: a negotiation message that a joined channel A sends for session S goes
\* to every other channel joined to S, never back to A, and never to a channel
\* that has not successfully joined S.
C1_RelayOnlyToJoined ==
  \A e \in out :
    (e.ev \in RelayKinds /\ e.sid \in joined[e.from]) =>
      /\ e.from \notin e.to
      /\ \A b \in Sockets \ {e.from} : e.sid \in joined[b] => b \in e.to
      /\ \A b \in e.to : e.sid \in joined[b] \/ JoinPending(b, e.sid)

\* C2: a negotiation message from an authenticated channel whose user is not
\* a participant of the tagged session is answered with an error and is not
\* relayed; only participants' messages are relayed.
C2_OnlyParticipantsRelay ==
  (ev.kind \in RelayKinds /\ ev.c \in authed /\ ~IsParticipant(socketUserId[ev.c], ev.s)) =>
     /\ \A e \in out : e.ev \notin RelayKinds
     /\ \E e \in out : e.ev \in ErrorKinds /\ e.to = {ev.c}

\* C3: once a session has been ended and removed from the in-process map, no
\* later step puts a session with that id into the map again.
C3_NoResurrection == \A s \in ended : activeSessions[s] = NoSession

\* C4: a session's participant list never holds two entries with the same userId.
C4_OneEntryPerUser ==
  \A s \in SessionIds :
    \A i, j \in DOMAIN activeSessions[s].participants :
      i # j => activeSessions[s].participants[i].userId # activeSessions[s].participants[j].userId

C7_JoinVisible ==
  JoinDone =>
     /\ activeSessions[ret.s].status = "active"
     /\ HasEntry(activeSessions[ret.s], ret.u, ret.c)

\* C7 (amended): the same, when no other operation on the session ran while
\* the join was suspended at its cache write.
C7_JoinVisibleWhenSequential ==
  (JoinDone /\ Sequential) =>
     /\ activeSessions[ret.s].status = "active"
     /\ HasEntry(activeSessions[ret.s], ret.u, ret.c)

C7_Witness ==
  /\ JoinDone /\ Sequential
  /\ HasEntry(activeSessions[ret.s], ret.u, ret.c)

\* C8: a session:join on a channel that has never authenticated changes no
\* session, binds the channel to no room, starts no handler and emits no
\* participant:joined; the channel gets an error.
C8_UnauthenticatedJoinRejected ==
  [][(ev'.kind = "session:join" /\ ev'.c \notin authed /\ events' # events) =>
        /\ activeSessions' = activeSessions
        /\ cache' = cache
        /\ rooms' = rooms
        /\ queue' = queue
        /\ \A e \in out' : e.ev # "participant:joined"
        /\ \E e \in out' : e.ev = "error" /\ e.to = {ev'.c}]_vars

C8_Witness ==
  /\ ev.kind = "session:join" /\ ev.c \notin authed
  /\ \E s \in SessionIds : activeSessions[s] # NoSession /\ ev.s = s
  /\ \E e \in out : e.ev = "error"

\* C9: every join, leave, offer, answer or candidate on an unauthenticated
\* channel is answered with an error.
C9_UnauthenticatedGetsError ==
  (ev.kind \in RelayKinds \cup {"session:join", "session:leave"} /\ ev.c \notin authed) =>
     \E e \in out : e.ev = "error" /\ e.to = {ev.c}

\* C10: after an authenticate that fails the channel is still connected, has
\* got auth:error and is unauthenticated, whatever happened on it before.
C10_FailedAuthLeavesUnauthenticated ==
  (ev.kind = "authenticate" /\ ev.tok \in {NoToken, BadToken}) =>
     /\ \E e \in out : e.ev = "auth:error" /\ e.to = {ev.c}
     /\ ev.c \in connected
     /\ NotAuthenticated(ev.c)

\* C11: a participant:joined notice is emitted by a join whose joinSession
\* call has returned normally; it goes to every channel bound to the session
\* except the joiner's own channel, and never to the joiner's own channel, on
\* the socket path and on the REST path.
C11_JoinNoticeToOthersOnly ==
  \A e \in out :
    e.ev = "participant:joined" =>
      /\ JoinDone
      /\ e.sid = ret.s
      /\ ret.c \notin e.to
      /\ e.to = rooms[ret.s] \ {ret.c}

\* C12: when the leaveSession call of a leave or of a disconnect has removed
\* the last participant and deleted the session, no participant:left reaches
\* any channel.
C12_NoLeftNoticeWhenDeleted ==
  (LeaveDone /\ Drained /\ HadParticipants) =>
     \A e \in out : e.ev = "participant:left" => e.to = {}

\* C13: a createSession, joinSession or leaveSession call whose cache write
\* failed still returns normally.
C13_CacheFailureNotFatal ==
  [][(ev'.kind = "resume" /\ Head(queue).pc = "store" /\ ~Head(queue).ok) =>
        ret'.ok]_vars

\* the step resumes a joinSession call of user u after its cache read
JoinResumes(u) ==
  /\ ev'.kind = "resume"
  /\ Head(queue).op \in {"join", "restjoin"}
  /\ Head(queue).pc = "get"
  /\ Head(queue).res # NoSession
  /\ Head(queue).u = u
  /\ queue'[Len(queue')].ok

\* a join of user u that is past its map mutation and whose cache write succeeds
JoinCompleting(t, u, s) ==
  /\ t.op \in {"join", "restjoin"}
  /\ t.pc = "store"
  /\ t.ok
  /\ t.u = u
  /\ t.s = s

\* C14: joins running concurrently on one session are atomic with respect to the
\* in-process map: when a join by u applies its mutation while a join by
\* another user v on the same session is in flight past its own mutation, and
\* both complete successfully, v's participant entry is still in the map
C14_ConcurrentJoinsKeepBoth ==
  [][\A u \in Users :
       JoinResumes(u) =>
         \A i \in 1..Len(queue) :
           \A v \in Users \ {u} :
             (/\ JoinCompleting(queue[i], v, Head(queue).s)
              /\ IsParticipant(v, Head(queue).s)) =>
                \E k \in DOMAIN activeSessions'[Head(queue).s].participants :
                  activeSessions'[Head(queue).s].participants[k].userId = v]_vars

\* C15: a session in status 'created' leaves that status only by becoming
\* 'active' (a first join); no step of the session service other than the
\* expiry sweep ends or deletes it, in particular not a leave request naming a
\* session that has no participants.
C15_CreatedOnlyBecomesActive ==
  [][\A s \in SessionIds :
       activeSessions[s].status = "created" =>
         activeSessions'[s].status \in {"created", "active"}]_vars

\* the last step completed a run of cleanupExpiredSessions
SweepDone == ret.op = "cleanup"

\* the sessions a completed sweep found in the in-process map when it started
\* and whose createdAt was more than one hour before
SweptIds ==
  {s \in ret.task.expired : \E i \in DOMAIN ret.task.todo : ret.task.todo[i] = s}

\* the step is one of cleanupExpiredSessions, whose threshold was `expired`
SweepActs(expired) ==
  \/ ev'.kind = "cleanup" /\ expired = old
  \/ ev'.kind = "resume" /\ Head(queue).op = "cleanup" /\ expired = Head(queue).expired

\* no step of a sweep removes a session created less than one hour before the
\* sweep started, from the in-process map or from the cache
SweepSparesYoung ==
  \A expired \in SUBSET SessionIds :
    SweepActs(expired) =>
      \A s \in SessionIds \ expired :
        activeSessions'[s] = activeSessions[s] /\ cache'[s] = cache[s]

SweepUndisturbed == failures = ret.task.failed

C17_RelayLookupRecoversFromCache ==
  (/\ ev.kind \in RelayKinds
   /\ ~NotAuthenticated(ev.c)
   /\ cache[ev.s] # NoSession) =>
     /\ activeSessions[ev.s] # NoSession
     /\ \A e \in out : e.ev # "webrtc:error"

\* the last step completed a deleteSession call
DeleteDone == ret.op = "delete"

\* C18: after deleteSession(sessionId) has completed, with no other operation
\* on that session in flight during or after the call, the session is in
\* neither the in-process map nor the cache, whatever its state was; the call
\* raises no error, also when the id is in neither tier.
C18_DeleteRemovesFromBothTiers ==
  DeleteDone =>
    /\ ret.ok
    /\ Sequential =>
         /\ activeSessions[ret.s] = NoSession
         /\ cache[ret.s] = NoSession

\* every leg creation of the last createConferenceCall has been answered
LegsSettled ==
  /\ conference = "created"
  /\ \A i \in DOMAIN participantPromises : participantPromises[i] # "pending"

\* C19: createConferenceCall with several participants fails only if every leg
\* creation fails: when at least one leg creation succeeded and at least one
\* failed, the call returns normally.
C19_PartialFailureReturns ==
  (/\ LegsSettled
   /\ Len(participants) >= 2
   /\ \E i \in DOMAIN participantPromises : participantPromises[i] = "fulfilled"
   /\ \E i \in DOMAIN participantPromises : participantPromises[i] = "rejected") =>
     outcome.kind = "returned"

\* C20: createConferenceCall with a single participant whose leg creation the
\* gateway fails does not raise; it returns a result.
C20_SingleLegFailureReturns ==
  (/\ conference = "created"
   /\ Len(participants) = 1
   /\ participantPromises = <<"rejected">>) =>
     outcome.kind = "returned"

\* the last createConferenceCall returned normally
CallReturned == outcome.kind = "returned"

\* the positions in the request log of the requests of one kind to one address
RequestsTo(kind, to) ==
  {i \in DOMAIN requests : requests[i].kind = kind /\ requests[i].to = to}

\* C21: a successful createConferenceCall has issued exactly one
\* create-conference request and one create-call request per participant,
\* never more than one to an address, and returns the conference id the
\* provider issued.
C21_OneRequestPerAddress ==
  CallReturned =>
    /\ Cardinality(RequestsTo("conferences.create", "none")) = 1
    /\ Len(requests) = 1 + Len(participants)
    /\ \A i \in DOMAIN participants :
         Cardinality(RequestsTo("calls.create", participants[i].number)) = 1
    /\ outcome.conferenceSid = conferenceSid

\* C21 (amended): a successful createConferenceCall has issued exactly one
\* create-conference request followed by exactly one create-call request per
\* entry of the participants array, in the order of the array and to the
\* number of that entry (an address listed twice is called twice), and returns
\* the conference id the provider issued.
C21_OneRequestPerParticipant ==
  CallReturned =>
    /\ Len(requests) = 1 + Len(participants)
    /\ requests[1].kind = "conferences.create"
    /\ \A i \in DOMAIN participants :
         /\ requests[i + 1].kind = "calls.create"
         /\ requests[i + 1].to = participants[i].number
    /\ conferenceSid \in ConferenceSids
    /\ outcome.conferenceSid = conferenceSid

\* a call with an address listed twice has returned normally
C21_Witness ==
  /\ CallReturned
  /\ Len(participants) >= 2
  /\ participants[1] = participants[2]

\* C22: endCall is idempotent: an endCall on a leg that the provider reports
\* as already ended raises no error, it returns normally.
C22_EndCallToleratesAlreadyEnded ==
  endOutcome.reply = "already-ended" => endOutcome.kind = "returned"

\* C23: per-channel FIFO: of two negotiation messages of one channel for one
\* session, every other channel receives the one sent first before the other.
C23_PerChannelFifo ==
  \A d \in Sockets :
    \A i, j \in DOMAIN inbox[d] :
      (/\ i < j
       /\ inbox[d][i].from = inbox[d][j].from
       /\ inbox[d][i].data.s = inbox[d][j].data.s) =>
         inbox[d][i].n < inbox[d][j].n

\* a channel has received two messages of one sender while a third handler of
\* that sender was still waiting
C23_Witness ==
  \E d \in Sockets :
    /\ Len(inbox[d]) >= 2
    /\ inbox[d][1].from = inbox[d][2].from
    /\ inbox[d][1].data.kind # inbox[d][2].data.kind
    /\ micro # <<>>
    /\ micro[1].c = inbox[d][1].from
\* C24: every error event on a real-time channel carries one of the constant
\* messages of its event name, whatever exception, cache error or lookup
\* failure the handler caught.
Messages(name) ==
  CASE name = "auth:error" -> {"No token provided", "Invalid token", "Authentication failed"}
    [] name = "error" -> {"Not authenticated"}
    [] name = "webrtc:error" -> {"Failed to send offer", "Failed to send answer",
                                 "Failed to send ICE candidate"}
    [] name = "session:error" -> {"Failed to join session"}
    [] name = "call:error" -> {"Failed to accept call"}
    [] OTHER -> {NoError}

ErrorEvents == {"auth:error", "error", "webrtc:error", "session:error", "call:error"}

C24_ErrorsCarryConstants ==
  \A e \in out : /\ e.error \in Messages(e.ev)
                 /\ e.ev \in ErrorEvents => e.error \notin Causes \cup {NoError}

\* a join that failed on a cache error was answered with the handler's constant
C24_Witness ==
  /\ ev.kind = "resume" /\ ret.op = "join" /\ ~ret.ok /\ failures > 0
  /\ HasEntry(activeSessions[ret.s], ret.u, ret.c)
  /\ \E e \in out : e.ev = "session:error" /\ e.error = "Failed to join session"

\* C25: two generateConferenceTwiML calls with the same conferenceName and
\* options return the same markup, and a call changes no state of the service
\* and sends no request to the gateway.
SameArguments ==
  /\ Len(twiml) = 2
  /\ twiml[1].conferenceName = twiml[2].conferenceName
  /\ twiml[1].options = twiml[2].options

LoggedOut ==
  /\ browser.stored = Null
  /\ browser.token = Null
  /\ browser.user = Null
  /\ browser.header = Null

C26_LogoutEndsLoggedOut == browser.last.op = "logout" => LoggedOut

\* a logged-in user has logged out, and the disconnect call failed
C26_Witness ==
  /\ browser.last = [op |-> "logout", ok |-> FALSE, user |-> UserInfo]
  /\ LoggedOut

\* C27: the expiry sweep does not delete a session older than one hour whose
\* connected participant has just joined it.
JustJoined ==
  /\ ret.op = "join" /\ ret.ok
  /\ ret.s \in old
  /\ ret.c \in connected
  /\ HasEntry(activeSessions[ret.s], ret.u, ret.c)

C27_SweepSparesActiveSessions ==
  [][(JustJoined /\ ev'.kind = "cleanup") => activeSessions'[ret.s] # NoSession]_vars

\* C28: whenever no session operation is in flight and no cache call has
\* failed, the cache holds the same session ids as the in-process map, each
\* with the same record.
C28_CacheMirrorsMap ==
  (queue = <<>> /\ failures = 0) => \A s \in SessionIds : cache[s] = activeSessions[s]

\* C29: a forwarded offer, answer or candidate carries the userId the server
\* had bound to the sending channel when it was sent; two sends of one channel
\* under one binding carry the same userId whatever identity the client's
\* message claimed.
Received == UNION {{inbox[d][i] : i \in DOMAIN inbox[d]} : d \in Sockets}

\* the objects the service has built for handlers that have yet to emit them
Built == {micro[i] : i \in DOMAIN micro}

C29_ForwardCarriesBoundUser ==
  /\ \A m \in Received \cup Built : m.data.uid = m.bound
  /\ \A m1, m2 \in Received :
       (m1.from = m2.from /\ m1.bound = m2.bound) => m1.data.uid = m2.data.uid

\* after one message of a channel was forwarded, the object for a second one,
\* whose payload claimed another user's identity, has been built for the room
C29_Witness ==
  /\ ev.kind \in RelayKinds
  /\ ev.tok \in Users \ {socketUserId[ev.c]}
  /\ \E m \in Built : m.c = ev.c /\ m.n = sent /\ m.ok /\ rooms[m.data.s] \ {m.c} # {}
  /\ \E m \in Received : m.from = ev.c /\ m.bound = socketUserId[ev.c]

\* C30: a channel stays bound to a session's room when its user joins the
\* session again on another channel: only the channel's own session:leave or
\* disconnect takes it out of the room, and every forward and notice for the
\* session goes to all channels of the room but the sender.
RoomEvents == RelayKinds \cup {"participant:joined", "participant:left"}

KeepsBinding ==
  \A c \in Sockets, s \in SessionIds :
    (c \in rooms[s] /\ c \notin rooms'[s]) =>
       (ev'.c = c /\ ev'.kind \in {"session:leave", "disconnect"})

C30_RejoinKeepsOldChannelBound ==
  /\ [][KeepsBinding]_vars
  /\ [](\A e \in out : (e.ev \in RoomEvents /\ e.from \in Sockets) =>
                          e.to = rooms[e.sid] \ {e.from})

\* the user of c1 has joined the session again on c2, and c1 has received a
\* negotiation message sent after the rejoin
C30_Witness ==
  \E s \in SessionIds, u \in Users, c1 \in Sockets, c2 \in Sockets :
    /\ c1 # c2
    /\ HasEntry(activeSessions[s], u, c1) /\ HasEntry(activeSessions[s], u, c2)
    /\ s \in joined[c1] /\ s \in joined[c2]
    /\ c1 \in connected
    /\ ev.kind = "emit"
    /\ \E e \in out : e.ev \in RelayKinds /\ e.sid = s /\ e.from = c2 /\ e.uid = u /\ c1 \in e.to

\* C31: the join instructions served for a leg name the conference that
\* createConferenceCall created: the name in the <Conference> element equals
\* the friendlyName of the conferences.create request.
C31_LegsJoinCreatedConference ==
  [][\A i \in 1..MaxLegs :
       ConferenceJoin(i) => twiml'[Len(twiml')].markup.conference = requests[1].friendlyName]_vars

\* C32: a request that is answered 401 causes at most one token refresh and
\* is sent at most once more; a request that was rejected or resolved is not
\* sent again, and a failed refresh removes the stored token and rejects the
\* request.
IsSettled(r) == r.pc \in {"resolved", "rejected"}

C32_RetryTerminates ==
  /\ [](\A i \in DOMAIN http : http[i].refreshes <= 1 /\ http[i].sends <= 2)
  /\ [][\A i \in DOMAIN http :
          /\ IsSettled(http[i]) => http'[i] = http[i]
          /\ Refreshed(i, "error") => browser'.stored = Null /\ http'[i].pc = "rejected"]_vars

\* a request was answered 401, the token was refreshed, the request was sent
\* again and answered 401 once more: it is rejected
C32_Witness ==
  \E i \in DOMAIN http :
    /\ http[i].pc = "rejected" /\ http[i].status = 401
    /\ http[i].refreshes = 1 /\ http[i].sends = 2

\* C33: a session:join for a session that is in neither tier changes nothing:
\* when it ends with session-not-found, the map and the cache are as they
\* were and the requesting channel is not in the session's room.
JoinFindsNothing ==
  /\ queue # <<>>
  /\ Head(queue).op = "join" /\ Head(queue).pc = "get"
  /\ Head(queue).ok /\ Head(queue).res = NoSession
  /\ ev'.kind = "resume"

C33_FailedJoinChangesNothing ==
  [][JoinFindsNothing =>
       /\ activeSessions' = activeSessions
       /\ cache' = cache
       /\ Head(queue).c \notin rooms'[Head(queue).s]]_vars

\* C34: whenever no operation is in flight, a channel is in the relay room of
\* a session exactly if the in-process session has a participant entry with
\* that channel's id.
OnChannel(session, c) ==
  \E i \in DOMAIN session.participants : session.participants[i].socketId = c

C34_StoreRelayAgreement ==
  queue = <<>> =>
    \A c \in Sockets, s \in SessionIds : c \in rooms[s] <=> OnChannel(activeSessions[s], c)

\* C35: once the disconnect handler of an authenticated channel has finished,
\* no session of the in-process map has a participant entry with that
\* channel's id and the connected-clients registry has no entry for it.
DisconnectFinished(c) ==
  /\ ev.kind = "resume"
  /\ ret.op = "disconnect" /\ ret.c = c
  /\ \A i \in DOMAIN queue : ~(queue[i].op = "disconnect" /\ queue[i].c = c)

C35_DisconnectCleansUp ==
  \A c \in authed :
    DisconnectFinished(c) =>
      /\ \A s \in SessionIds : ~OnChannel(activeSessions[s], c)
      /\ connectedClients[c] = NoUser

\* C36: when a disconnect or leave of one channel through which a user was in
\* a session has completed, the user is still a participant of the session
\* through every other channel on which the user has joined it and which is
\* still in its room.
OtherChannelLeft(c2) ==
  /\ ev.kind = "resume"
  /\ ret.op \in {"disconnect", "leave"}
  /\ ret.ok
  /\ ret.c # c2
  /\ ret.u = socketUserId[c2]
  /\ \E i \in DOMAIN ret.task.before :
       ret.task.before[i] = [userId |-> ret.u, socketId |-> ret.c]

C36_OtherChannelKeepsMembership ==
  \A c2 \in connected :
    (/\ OtherChannelLeft(c2)
     /\ ret.s \in joined[c2]
     /\ c2 \in rooms[ret.s]
     /\ \A i \in DOMAIN queue : queue[i].c # c2) =>
       HasEntry(activeSessions[ret.s], socketUserId[c2], c2)

\* ---------------------------------------------------------------- C37
ReportedError(ops) ==
  /\ ev.kind = "resume"
  /\ ret.op \in ops
  /\ ~ret.ok

\* C37: when createSession or joinSession has reported an error to its caller,
\* the in-process map is as it was before the call: the session id of a failed
\* createSession has no entry in the map, and the session of a failed
\* joinSession holds no participant entry of the joining user and socket.
C37_FailedCallsLeaveMapUnchanged ==
  /\ ReportedError({"create"}) => activeSessions[ret.s] = NoSession
  /\ ReportedError({"join", "restjoin"}) =>
       ~HasEntry(activeSessions[ret.s], ret.u, ret.c)

\* ---------------------------------------------------------------- C38
WebhookEvents == {"inbound:whatsapp-call", "call:status-update", "conference:event"}

\* C38: an event produced from a telephony webhook is delivered only to
\* channels that have successfully authenticated.
C38_WebhookEventsOnlyToAuthenticated ==
  \A e \in out : e.ev \in WebhookEvents => e.to \subseteq authed

\* ---------------------------------------------------------------- C39
\* C39: the userId bound to a channel by a successful authenticate never
\* changes while the channel stays connected.
C39_BoundUserNeverChanges ==
  [][\A c \in connected \cap connected' :
       socketUserId[c] # NoUser => socketUserId'[c] = socketUserId[c]]_vars

====
